---- MODULE Spec2Model ----
(***************************************************************************)
(* Real-time media client: Playback Scheduler (useAudioPlayback),          *)
(* Connection Manager (useWebSocket) and the Session Controller            *)
(* (AgentPanel) that wires them together.                                  *)
(*                                                                         *)
(* Time is counted in units of 50 ms, the slack that the onended handler   *)
(* of useAudioPlayback adds to the device clock; a unit's duration is the  *)
(* number of such units its samples last at the output rate.               *)
(***************************************************************************)
EXTENDS Integers, Sequences, FiniteSets, TLC

\* ---------------------------------------------------------------- bounds
MaxTime == 1        \* a device clock is followed up to this time
MaxDur == 2         \* longest inbound chunk, in time units
MaxChunks == 2      \* playChunk calls followed
MaxCtx == 2         \* output device contexts created
MaxSocks == 2       \* transports created by connect()
MaxSent == 1        \* media and text messages transmitted, over all transports
MaxEntries == 1     \* transcript entries added by sendText
MaxMsgs == 3        \* inbound frames delivered, over all transports
MaxStarts == 2      \* start() calls followed, of each capture hook

\* ------------------------------------------------------- program constants
EndedSlack == 1     \* the 0.05 s of the onended handler, one time unit
AUDIO_CHUNK_SIZE == 2  \* samples in one block of the processor, scaled down
Scale == 2          \* a float sample is a multiple of 1/Scale, up to 1 + 1/Scale

VARIABLES
  op,         \* the operation or callback that ran last ("device": the
              \* output device moved on without calling into the program)
  threw,      \* whether that operation raised an exception
  ctxRef,     \* ctxRef.current: 0 (null) or the index of a context in ctxs
  ctxs,       \* every AudioContext created so far: [state, time]
  nextTime,   \* nextTimeRef.current, the cursor
  isPlaying,  \* isPlayingRef.current
  units,      \* every buffer source scheduled so far, in scheduling order
  wsRef,      \* wsRef.current: 0 (null) or the index of a transport in socks
  status,     \* the status state of useWebSocket
  socks,      \* every WebSocket created so far
  task,       \* the transport whose closing task has fired error, not yet close
  prevStatus, \* the status that the latest setStatus call replaced
  sessionState, \* the sessionState state of AgentPanel
  transcript, \* the transcript state of AgentPanel: entries [role, text]
  agentName,  \* the agentName state of AgentPanel
  assistantBuf, \* assistantBufferRef.current, as the chunks appended to it
  delivered,  \* number of message events dispatched so far
  mics,       \* the start() calls of useAudioCapture and what each acquired
  micRef,     \* the call whose stream, context and processor the refs hold
  isCapturing, \* the isCapturing state of useAudioCapture
  cams,       \* the start() calls of useCameraCapture and what each acquired
  camRef,     \* the call whose stream and interval the refs hold
  camActive,  \* the isActive state of useCameraCapture
  video,      \* the mounted video element: its srcObject and readiness
  calls,      \* the hook calls made by the handler that ran last
  inbound,    \* the frame that ws.onmessage received last
  block       \* the block that onaudioprocess received last, and its PCM

playbackVars == <<ctxRef, ctxs, nextTime, isPlaying, units>>
connVars == <<wsRef, status, socks, task, prevStatus, sessionState>>
sessionVars == <<transcript, agentName, assistantBuf, delivered>>
captureVars == <<mics, micRef, isCapturing, cams, camRef, camActive, video>>
vars == <<op, threw, ctxRef, ctxs, nextTime, isPlaying, units,
          wsRef, status, socks, task, prevStatus, sessionState,
          transcript, agentName, assistantBuf, delivered,
          mics, micRef, isCapturing, cams, camRef, camActive, video, calls,
          inbound, block>>

Max(a, b) == IF a >= b THEN a ELSE b

\* No frame has been received yet.
NoFrame == [kind |-> "none", type |-> "", text |-> <<>>, agent |-> "", n |-> 0]

\* ===================================================== Playback Scheduler

\* new AudioContext(...): its clock starts at 0; the autoplay policy decides
\* whether it starts suspended or running.
NewCtxStates == {"suspended", "running"}

\* getContext's test for acquiring a new context.
NeedsNewCtx == IF ctxRef = 0 THEN TRUE ELSE ctxs[ctxRef].state = "closed"

\* ctx.close(): the context stops rendering for good.  The rendering thread
\* handles the close before it renders its next quantum, a latency far below
\* one time unit, so the close takes effect within the call.
CloseCtxForgotten(cs, c) == cs
CloseCtx(cs, c) == [cs EXCEPT ![c].state = "closed"]

\* const startTime = Math.max(now, nextTimeRef.current)
StartTimeNoMax(now, cursor) == now
StartTime(now, cursor) == Max(now, cursor)

\* nextTimeRef.current = startTime + buffer.duration
NextCursorNoDuration(start, dur) == start
NextCursor(start, dur) == start + dur

\* flush: nextTimeRef.current = 0
FlushedCursorKept(cursor) == cursor
FlushedCursor(cursor) == 0

UnitEnd(u) == u.start + u.dur

\* playChunk(pcmData) with pcmData holding n time units of samples.  n = 0 is
\* an empty frame: createBuffer(1, 0, rate) raises NotSupportedError after
\* getContext has run, so nothing is scheduled.
PlayChunkBody(n) ==
  /\ Len(units) < MaxChunks
  /\ NeedsNewCtx => Len(ctxs) < MaxCtx
  /\ \E s0 \in NewCtxStates :
       LET cs == IF NeedsNewCtx
                 THEN Append(ctxs, [state |-> s0, time |-> 0])
                 ELSE ctxs
           c == IF NeedsNewCtx THEN Len(cs) ELSE ctxRef
           now == cs[c].time
           start == StartTime(now, nextTime)
       IN /\ (~NeedsNewCtx) => s0 = "running"
          /\ ctxs' = cs
          /\ ctxRef' = c
          /\ IF n = 0
             THEN /\ threw' = TRUE
                  /\ UNCHANGED <<nextTime, isPlaying, units>>
             ELSE /\ threw' = FALSE
                  /\ units' = Append(units, [ctx |-> c, now |-> now,
                                             start |-> start, dur |-> n,
                                             st |-> "scheduled"])
                  /\ nextTime' = NextCursor(start, n)
                  /\ isPlaying' = TRUE

PlayChunk(n) ==
  /\ UNCHANGED <<connVars, sessionVars, captureVars>>
  /\ PlayChunkBody(n)
  /\ op' = "playChunk"
  /\ calls' = <<>>
  /\ UNCHANGED <<inbound, block>>

\* flush()
FlushBody ==
  /\ IF ctxRef # 0
     THEN /\ ctxs' = CloseCtx(ctxs, ctxRef)
          /\ ctxRef' = 0
     ELSE UNCHANGED <<ctxs, ctxRef>>
  /\ nextTime' = FlushedCursor(nextTime)
  /\ isPlaying' = FALSE
  /\ UNCHANGED units

Flush ==
  /\ UNCHANGED <<connVars, sessionVars, captureVars>>
  /\ FlushBody
  /\ op' = "flush"
  /\ calls' = <<>>
  /\ UNCHANGED <<inbound, block>>
  /\ threw' = FALSE

\* The promise of ctx.resume() (called by getContext on a suspended context)
\* resolves: the context runs.
CtxResumed(c) ==
  /\ UNCHANGED <<connVars, sessionVars, captureVars>>
  /\ c \in 1..Len(ctxs)
  /\ ctxs[c].state = "suspended"
  /\ ctxs' = [ctxs EXCEPT ![c].state = "running"]
  /\ UNCHANGED <<ctxRef, nextTime, isPlaying, units>>
  /\ op' = "device"
  /\ calls' = <<>>
  /\ UNCHANGED <<inbound, block>>
  /\ threw' = FALSE

\* The device clock of a running context advances.
ClockTick(c) ==
  /\ UNCHANGED <<connVars, sessionVars, captureVars>>
  /\ c \in 1..Len(ctxs)
  /\ ctxs[c].state = "running"
  /\ ctxs[c].time < MaxTime
  /\ ctxs' = [ctxs EXCEPT ![c].time = @ + 1]
  /\ UNCHANGED <<ctxRef, nextTime, isPlaying, units>>
  /\ op' = "device"
  /\ calls' = <<>>
  /\ UNCHANGED <<inbound, block>>
  /\ threw' = FALSE

\* source.start(startTime): a running context starts a unit once its clock
\* has reached the unit's start time.
UnitStart(i) ==
  /\ UNCHANGED <<connVars, sessionVars, captureVars>>
  /\ i \in 1..Len(units)
  /\ units[i].st = "scheduled"
  /\ ctxs[units[i].ctx].state = "running"
  /\ ctxs[units[i].ctx].time >= units[i].start
  /\ units' = [units EXCEPT ![i].st = "playing"]
  /\ UNCHANGED <<ctxRef, ctxs, nextTime, isPlaying>>
  /\ op' = "device"
  /\ calls' = <<>>
  /\ UNCHANGED <<inbound, block>>
  /\ threw' = FALSE

\* source.onended: the unit has played to its end; the handler reads the
\* clock of the context the unit was scheduled on and the current cursor.
UnitEnded(i) ==
  /\ UNCHANGED <<connVars, sessionVars, captureVars>>
  /\ i \in 1..Len(units)
  /\ units[i].st = "playing"
  /\ ctxs[units[i].ctx].state = "running"
  /\ ctxs[units[i].ctx].time >= UnitEnd(units[i])
  /\ units' = [units EXCEPT ![i].st = "ended"]
  /\ isPlaying' = IF nextTime <= ctxs[units[i].ctx].time + EndedSlack
                  THEN FALSE ELSE isPlaying
  /\ UNCHANGED <<ctxRef, ctxs, nextTime>>
  /\ op' = "onended"
  /\ calls' = <<>>
  /\ UNCHANGED <<inbound, block>>
  /\ threw' = FALSE

Init ==
  /\ op = "init"
  /\ threw = FALSE
  /\ ctxRef = 0
  /\ ctxs = <<>>
  /\ nextTime = 0
  /\ isPlaying = FALSE
  /\ units = <<>>
  /\ wsRef = 0
  /\ status = "disconnected"
  /\ socks = <<>>
  /\ task = 0
  /\ prevStatus = "none"
  /\ sessionState = "idle"
  /\ transcript = <<>>
  /\ agentName = "general"
  /\ assistantBuf = <<>>
  /\ delivered = 0
  /\ mics = <<>>
  /\ micRef = 0
  /\ isCapturing = FALSE
  /\ cams = <<>>
  /\ camRef = 0
  /\ camActive = FALSE
  /\ video = [src |-> 0, ready |-> FALSE]
  /\ calls = <<>>
  /\ inbound = NoFrame
  /\ block = [in |-> <<>>, out |-> <<>>]

PlaybackNext ==
  \/ \E n \in 0..MaxDur : PlayChunk(n)
  \/ Flush
  \/ \E c \in 1..MaxCtx : CtxResumed(c)
  \/ \E c \in 1..MaxCtx : ClockTick(c)
  \/ \E i \in 1..MaxChunks : UnitStart(i)
  \/ \E i \in 1..MaxChunks : UnitEnded(i)

PlaybackSpec == Init /\ [][PlaybackNext]_vars

\* ===================================================== Connection Manager

Presets == {"general", "tutor"}

\* new WebSocket(url): connecting, nothing sent, no event delivered.
NewSock(preset) ==
  [rs |-> "CONNECTING", preset |-> preset, sent |-> <<>>,
   wasOpen |-> FALSE, mustFail |-> FALSE, closed |-> FALSE]

\* wsRef.current?.readyState === WebSocket.OPEN
WsIsOpen == IF wsRef = 0 THEN FALSE ELSE socks[wsRef].rs = "OPEN"

\* JSON.stringify({ type: "config", preset })
ConfigMessageDefault(preset) == [type |-> "config", data |-> "general"]
ConfigMessage(preset) == [type |-> "config", data |-> preset]

\* ws.send(m) of the platform: transmits on an open transport, raises
\* InvalidStateError on a connecting one, discards on a closing or closed one.
SockSend(sk, m) ==
  IF sk.rs = "OPEN" THEN [sk EXCEPT !.sent = Append(@, m)] ELSE sk
SockSendThrows(sk) == sk.rs = "CONNECTING"

\* ws.close() of the platform: a connecting transport is failed (its closing
\* task fires error, then close), an open one starts the closing handshake,
\* a closing or closed one is left alone.
SockClose(sk) ==
  IF sk.rs = "CONNECTING" THEN [sk EXCEPT !.rs = "CLOSING", !.mustFail = TRUE]
  ELSE IF sk.rs = "OPEN" THEN [sk EXCEPT !.rs = "CLOSING"]
  ELSE sk

\* addEntry(role, text): the entry appended to the transcript; a text is the
\* sequence of its pieces.
Entry(role, text) == [role |-> role, text |-> text]

SessionEnded == <<"Session ended.">>

\* The video element of AgentPanel with no srcObject; the element is mounted
\* while the session is active and the camera is on.
NoVideo == [src |-> 0, ready |-> FALSE]

Mounted == sessionState = "active" /\ camActive

\* stop() of useAudioCapture on the call ref that the refs hold (0: none):
\* processorRef.current?.disconnect(), audioContextRef.current?.close(),
\* streamRef.current?.getTracks().forEach(stop).
StopMic(ms, ref) == IF ref = 0 THEN ms ELSE [ms EXCEPT ![ref] = "stopped"]

\* stop() of useCameraCapture: clearInterval(intervalRef.current) if set,
\* streamRef.current?.getTracks().forEach(stop).
StopCamera(cs, ref) == IF ref = 0 THEN cs ELSE [cs EXCEPT ![ref] = "stopped"]

\* disconnect() on reference w: wsRef.current?.close(), wsRef.current = null,
\* setStatus("disconnected"); the optional call raises nothing on null.
DisconnectUnguarded(w, sk) ==
  [socks |-> IF w = 0 THEN sk ELSE [sk EXCEPT ![w] = SockClose(@)],
   wsRef |-> 0, status |-> "disconnected", threw |-> w = 0]
Disconnect(w, sk) ==
  [socks |-> IF w = 0 THEN sk ELSE [sk EXCEPT ![w] = SockClose(@)],
   wsRef |-> 0, status |-> "disconnected", threw |-> FALSE]

\* The hook calls of handleEndSession, in the order it makes them.
EndOrder == <<"stopMic", "stopCamera", "disconnect">>

\* setStatus(s)
SetStatus(s) ==
  /\ status' = s
  /\ prevStatus' = status

\* The status ws.onclose sets.
ClosedStatusKept(s) == s
ClosedStatus(s) == "disconnected"

\* The guard of sendAudio, sendImage and sendText.
SendGuardNullOnly == wsRef # 0
SendGuard == WsIsOpen

\* handleStart(presetId) of AgentPanel, offered by AgentSelector while the
\* session is idle; it calls connect(sessionId, presetId), which returns at
\* once when the referenced transport is open.
HandleStart(preset) ==
  /\ task = 0
  /\ sessionState = "idle"
  /\ sessionState' = "active"
  /\ IF WsIsOpen
     THEN UNCHANGED <<wsRef, status, socks, prevStatus>>
     ELSE /\ Len(socks) < MaxSocks
          /\ SetStatus("connecting")
          /\ socks' = Append(socks, NewSock(preset))
          /\ wsRef' = Len(socks) + 1
  /\ transcript' = <<>>
  /\ agentName' = preset
  /\ UNCHANGED <<task, playbackVars, assistantBuf, delivered, captureVars>>
  /\ op' = "start"
  /\ calls' = <<>>
  /\ UNCHANGED <<inbound, block>>
  /\ threw' = FALSE

\* handleEndSession() as it would be if it also called flushAudio().
HandleEndSessionFlushing ==
  /\ task = 0
  /\ sessionState = "active"
  /\ mics' = StopMic(mics, micRef)
  /\ micRef' = 0
  /\ isCapturing' = FALSE
  /\ cams' = StopCamera(cams, camRef)
  /\ camRef' = 0
  /\ camActive' = FALSE
  /\ video' = NoVideo
  /\ socks' = Disconnect(wsRef, socks).socks
  /\ wsRef' = Disconnect(wsRef, socks).wsRef
  /\ SetStatus(Disconnect(wsRef, socks).status)
  /\ sessionState' = "idle"
  /\ FlushBody
  /\ UNCHANGED <<task, sessionVars>>
  /\ op' = "end"
  /\ calls' = EndOrder
  /\ UNCHANGED <<inbound, block>>
  /\ threw' = Disconnect(wsRef, socks).threw

\* handleEndSession() of AgentPanel, offered by Controls while the session is
\* active: stopMic(), stopCamera(), disconnect(), setSessionState("idle").
HandleEndSession ==
  /\ task = 0
  /\ sessionState = "active"
  /\ mics' = StopMic(mics, micRef)
  /\ micRef' = 0
  /\ isCapturing' = FALSE
  /\ cams' = StopCamera(cams, camRef)
  /\ camRef' = 0
  /\ camActive' = FALSE
  /\ video' = NoVideo
  /\ socks' = Disconnect(wsRef, socks).socks
  /\ wsRef' = Disconnect(wsRef, socks).wsRef
  /\ SetStatus(Disconnect(wsRef, socks).status)
  /\ sessionState' = "idle"
  /\ UNCHANGED <<task, playbackVars, sessionVars>>
  /\ op' = "end"
  /\ calls' = EndOrder
  /\ UNCHANGED <<inbound, block>>
  /\ threw' = Disconnect(wsRef, socks).threw

\* ws.onopen: the connection is established.
WsOnOpen(t) ==
  /\ task = 0
  /\ t \in 1..Len(socks)
  /\ socks[t].rs = "CONNECTING"
  /\ SetStatus("connected")
  /\ socks' = [socks EXCEPT
       ![t] = SockSend([@ EXCEPT !.rs = "OPEN", !.wasOpen = TRUE],
                       ConfigMessage(socks[t].preset))]
  /\ UNCHANGED <<wsRef, task, sessionState, playbackVars, sessionVars, captureVars>>
  /\ op' = "onopen"
  /\ calls' = <<>>
  /\ UNCHANGED <<inbound, block>>
  /\ threw' = FALSE

\* ws.onerror: the transport's closing task starts with a failure (the
\* connection could not be established, broke, or close() was called before
\* it was established); the same task fires close next.
WsOnError(t) ==
  /\ task = 0
  /\ t \in 1..Len(socks)
  /\ IF socks[t].rs = "CLOSING" THEN socks[t].mustFail
     ELSE socks[t].rs \in {"CONNECTING", "OPEN"}
  /\ socks' = [socks EXCEPT ![t].rs = "CLOSED"]
  /\ SetStatus("error")
  /\ task' = t
  /\ UNCHANGED <<wsRef, sessionState, playbackVars, sessionVars, captureVars>>
  /\ op' = "onerror"
  /\ calls' = <<>>
  /\ UNCHANGED <<inbound, block>>
  /\ threw' = FALSE

\* ws.onclose: the last event of a transport, after error in the same task or
\* alone when the peer or close() closed an established connection; it calls
\* onDisconnect, AgentPanel's handleDisconnect: setSessionState("idle") and
\* addEntry("system", "Session ended.").
WsOnClose(t) ==
  /\ t \in 1..Len(socks)
  /\ IF task # 0 THEN task = t
     ELSE IF socks[t].rs = "CLOSING" THEN ~socks[t].mustFail
     ELSE socks[t].rs = "OPEN"
  /\ socks' = [socks EXCEPT ![t].rs = "CLOSED", ![t].closed = TRUE]
  /\ SetStatus(ClosedStatus(status))
  /\ sessionState' = "idle"
  /\ transcript' = Append(transcript, Entry("system", SessionEnded))
  /\ task' = 0
  /\ video' = NoVideo
  /\ UNCHANGED <<mics, micRef, isCapturing, cams, camRef, camActive>>
  /\ UNCHANGED <<wsRef, playbackVars, agentName, assistantBuf, delivered>>
  /\ op' = "onclose"
  /\ calls' = <<>>
  /\ UNCHANGED <<inbound, block>>
  /\ threw' = FALSE

\* The media and text messages transmitted so far on transports 1..k.
RECURSIVE UserSent(_)
UserSent(k) ==
  IF k = 0 THEN 0
  ELSE UserSent(k - 1)
         + Cardinality({j \in 1..Len(socks[k].sent) :
                          socks[k].sent[j].type # "config"})

\* sendAudio / sendImage / sendText with message m: sent only through an
\* open transport.
Send(m) ==
  /\ task = 0
  /\ IF SendGuard
     THEN /\ UserSent(Len(socks)) < MaxSent
          /\ socks' = [socks EXCEPT ![wsRef] = SockSend(@, m)]
          /\ threw' = SockSendThrows(socks[wsRef])
     ELSE /\ UNCHANGED socks
          /\ threw' = FALSE
  /\ UNCHANGED <<wsRef, status, task, prevStatus, sessionState, playbackVars>>

\* sendAudio(buffer), the sink of the Capture Pipeline; a microphone can have
\* been switched on only once a session has been started.
SendAudio ==
  /\ Len(socks) > 0
  /\ UNCHANGED <<sessionVars, captureVars>>
  /\ Send([type |-> "audio", data |-> "pcm"])
  /\ op' = "sendAudio"
  /\ calls' = <<>>
  /\ UNCHANGED <<inbound, block>>

\* sendImage(base64Jpeg), the sink of the Frame Pacer.
SendImage ==
  /\ Len(socks) > 0
  /\ UNCHANGED <<sessionVars, captureVars>>
  /\ Send([type |-> "image", data |-> "jpeg"])
  /\ op' = "sendImage"
  /\ calls' = <<>>
  /\ UNCHANGED <<inbound, block>>

\* handleSendText(text) of AgentPanel, offered by Controls while the session
\* is active: sendText(text), then addEntry("user", text).
HandleSendText ==
  /\ sessionState = "active"
  /\ Len(transcript) < MaxEntries
  /\ Send([type |-> "text", data |-> "hi"])
  /\ transcript' = Append(transcript, Entry("user", <<"hi">>))
  /\ UNCHANGED <<agentName, assistantBuf, delivered, captureVars>>
  /\ op' = "sendText"
  /\ calls' = <<>>
  /\ UNCHANGED <<inbound, block>>

ConnNext ==
  \/ \E p \in Presets : HandleStart(p)
  \/ HandleEndSession
  \/ \E t \in 1..MaxSocks : WsOnOpen(t)
  \/ \E t \in 1..MaxSocks : WsOnError(t)
  \/ \E t \in 1..MaxSocks : WsOnClose(t)
  \/ SendAudio
  \/ SendImage
  \/ HandleSendText

ConnSpec == Init /\ [][ConnNext]_vars

\* The task that closes a transport fires error and close back to back, so
\* the close that follows an error is never withheld.
CloseAfterError == \E t \in 1..MaxSocks : task = t /\ WsOnClose(t)

ConnFairSpec == ConnSpec /\ WF_vars(CloseAfterError)

\* ======================================== inbound messages (AgentPanel)

\* What the server can put in one frame: a binary chunk of n time units, a
\* text frame that is not JSON ("garbage"), the JSON text null, or a JSON
\* object with a type and the optional fields text, agent and message.
MsgTypes == {"session_ready", "transcript", "input_transcript",
             "turn_complete", "interrupted", "error", "other"}

Pieces == {"Hel", "lo"}

Frame(kind, type, text, agent, n) ==
  [kind |-> kind, type |-> type, text |-> text, agent |-> agent, n |-> n]

Inbound ==
  {Frame("binary", "", <<>>, "", n) : n \in 0..MaxDur}
    \cup {Frame(k, "", <<>>, "", 0) : k \in {"garbage", "null"}}
    \cup {Frame("json", "session_ready", <<>>, a, 0) : a \in {"", "tutor"}}
    \cup {Frame("json", "transcript", x, "", 0) :
            x \in {<<>>} \cup {<<c>> : c \in Pieces}}
    \cup {Frame("json", "input_transcript", x, "", 0) :
            x \in {<<>>, <<" ">>, <<"hi">>}}
    \cup {Frame("json", ty, <<>>, "", 0) :
            ty \in MsgTypes \ {"session_ready", "transcript", "input_transcript"}}

\* JSON.parse(event.data) throws on text that is not JSON; onMessage(null)
\* throws on reading msg.type. Both happen inside the try of ws.onmessage.
Malformed(m) == m.kind \in {"garbage", "null"}

\* The tag left in op by the delivery of frame m.
MsgOp(m) ==
  CASE m.kind = "binary" -> "msg.binary"
    [] Malformed(m) -> "msg.malformed"
    [] OTHER -> m.type

\* try { ... } catch (e) { console.warn(...) }: nothing leaves the handler.
OnMessageUncaught(failed) == failed
OnMessageThrows(failed) == FALSE

\* msg.agent || "general"
AgentOfDefault(m) == "general"
AgentOf(m) == IF m.agent = "" THEN "general" ELSE m.agent

\* assistantBufferRef.current + " [interrupted]"
InterruptedUnmarked(buf) == buf
Interrupted(buf) == buf \o <<" [interrupted]">>

\* assistantBufferRef.current += (msg.text || "")
AccumulateInFront(buf, text) == text \o buf
Accumulate(buf, text) == buf \o text

\* if (assistantBufferRef.current): the accumulator is not the empty string.
FlushableAlways(buf) == TRUE
Flushable(buf) == buf # <<>>

\* switch (msg.type): a tag without a case runs no case.
TagOrError(m) ==
  IF m.type \in {"session_ready", "transcript", "input_transcript",
                 "turn_complete", "interrupted", "error"}
    THEN m.type ELSE "error"
Tag(m) == m.type

\* msg.text && msg.text.trim(): the text is present and not only spaces.
Blank(text) == \A i \in 1..Len(text) : text[i] = " "

\* The two copies of the panel in the tree: AgentPanel.tsx has no case for
\* input_transcript, src/unnamed/part_001 adds a user entry for it.
PanelCopies == {"AgentPanel.tsx", "part_001"}

\* handleMessage(msg) of AgentPanel, for a parsed object.
HandleMessage(m) ==
  CASE Tag(m) = "session_ready" ->
         /\ agentName' = AgentOf(m)
         /\ transcript' = Append(transcript,
              Entry("system", <<"Connected to ", AgentOf(m), " agent.">>))
         /\ UNCHANGED <<assistantBuf, playbackVars>>
    [] Tag(m) = "transcript" ->
         /\ assistantBuf' = Accumulate(assistantBuf, m.text)
         /\ UNCHANGED <<transcript, agentName, playbackVars>>
    [] Tag(m) = "input_transcript" ->
         /\ \E copy \in PanelCopies :
              IF copy = "part_001" /\ ~Blank(m.text)
                THEN transcript' = Append(transcript, Entry("user", m.text))
                ELSE UNCHANGED transcript
         /\ UNCHANGED <<agentName, assistantBuf, playbackVars>>
    [] Tag(m) = "turn_complete" ->
         /\ IF Flushable(assistantBuf)
              THEN /\ transcript' = Append(transcript, Entry("assistant", assistantBuf))
                   /\ assistantBuf' = <<>>
              ELSE UNCHANGED <<transcript, assistantBuf>>
         /\ UNCHANGED <<agentName, playbackVars>>
    [] Tag(m) = "interrupted" ->
         /\ FlushBody
         /\ IF Flushable(assistantBuf)
              THEN /\ transcript' = Append(transcript,
                        Entry("assistant", Interrupted(assistantBuf)))
                   /\ assistantBuf' = <<>>
              ELSE UNCHANGED <<transcript, assistantBuf>>
         /\ UNCHANGED agentName
    [] Tag(m) = "error" ->
         /\ transcript' = Append(transcript, Entry("system", <<"Error: ", "boom">>))
         /\ UNCHANGED <<agentName, assistantBuf, playbackVars>>
    [] OTHER -> UNCHANGED <<transcript, agentName, assistantBuf, playbackVars>>

\* ws.onmessage of transport t, which delivers messages only while OPEN: a
\* binary frame goes to onAudioChunk, AgentPanel's playChunk; a text frame is
\* parsed and handed to onMessage inside a try.
WsOnMessage(t, m) ==
  /\ task = 0
  /\ t \in 1..Len(socks)
  /\ socks[t].rs = "OPEN"
  /\ delivered < MaxMsgs
  /\ delivered' = delivered + 1
  /\ IF m.kind = "binary"
       THEN /\ PlayChunkBody(m.n)
            /\ UNCHANGED <<transcript, agentName, assistantBuf>>
       ELSE IF Malformed(m)
         THEN /\ threw' = OnMessageThrows(TRUE)
              /\ UNCHANGED <<transcript, agentName, assistantBuf, playbackVars>>
         ELSE /\ HandleMessage(m)
              /\ threw' = OnMessageThrows(FALSE)
  /\ UNCHANGED <<connVars, captureVars>>
  /\ op' = MsgOp(m)
  /\ calls' = <<>>
  /\ inbound' = m
  /\ UNCHANGED block

SessionNext ==
  \/ \E p \in Presets : HandleStart(p)
  \/ \E t \in 1..MaxSocks : WsOnOpen(t)
  \/ \E t \in 1..MaxSocks : WsOnClose(t)
  \/ \E t \in 1..MaxSocks, m \in Inbound : WsOnMessage(t, m)

SessionSpec == Init /\ [][SessionNext]_vars

\* ============================ Capture Pipeline and Frame Pacer (hooks)

\* Where a start() call of useAudioCapture stands: "gum" awaiting
\* getUserMedia with nothing acquired, "denied" rejected by it, "live" run to
\* its end (stream live, processor connected to a running context), "leaked"
\* failed after the stream was acquired (stream live, nothing connected),
\* "stopped" torn down by stop().
MicLive(k) == mics[k] \in {"live", "leaked"}
MicFeeds(k) == mics[k] = "live"

\* Where a start() call of useCameraCapture stands: "gum", "denied", "play"
\* awaiting play() with the stream acquired, "live" run to its end (stream
\* live, interval armed), "leaked" failed after the stream was acquired,
\* "stopped".
CamLive(k) == cams[k] \in {"play", "live", "leaked"}
CamArmed(k) == cams[k] = "live"

\* What the actions of the hooks leave alone.
notCapture == <<wsRef, status, socks, task, prevStatus, sessionState,
                playbackVars, sessionVars>>

\* handleToggleMic() of AgentPanel, offered by Controls while the session is
\* active: stopMic() when the microphone is shown as on, else startMic(),
\* which runs up to its first await.
HandleToggleMic ==
  /\ task = 0
  /\ sessionState = "active"
  /\ IF isCapturing
       THEN /\ mics' = StopMic(mics, micRef)
            /\ micRef' = 0
            /\ isCapturing' = FALSE
       ELSE /\ Len(mics) < MaxStarts
            /\ mics' = Append(mics, "gum")
            /\ UNCHANGED <<micRef, isCapturing>>
  /\ UNCHANGED <<cams, camRef, camActive, video, notCapture>>
  /\ op' = "toggleMic"
  /\ calls' = IF isCapturing THEN <<"stopMic">> ELSE <<"startMic">>
  /\ UNCHANGED <<inbound, block>>
  /\ threw' = FALSE

\* start() of useAudioCapture after getUserMedia resolved for call k: the
\* context, source and processor are created and connected, the refs and
\* isCapturing are set; when creating the context fails the catch rethrows
\* and the stream stays as it was acquired.
MicGranted(k) ==
  /\ task = 0
  /\ k \in 1..Len(mics)
  /\ mics[k] = "gum"
  /\ \E ok \in BOOLEAN :
       IF ok
         THEN /\ mics' = [mics EXCEPT ![k] = "live"]
              /\ micRef' = k
              /\ isCapturing' = TRUE
              /\ threw' = FALSE
         ELSE /\ mics' = [mics EXCEPT ![k] = "leaked"]
              /\ UNCHANGED <<micRef, isCapturing>>
              /\ threw' = TRUE
  /\ UNCHANGED <<cams, camRef, camActive, video, notCapture>>
  /\ op' = "micGranted"
  /\ calls' = <<>>
  /\ UNCHANGED <<inbound, block>>

\* getUserMedia rejected for call k (permission denied, no device): the catch
\* logs and rethrows.
MicDenied(k) ==
  /\ task = 0
  /\ k \in 1..Len(mics)
  /\ mics[k] = "gum"
  /\ mics' = [mics EXCEPT ![k] = "denied"]
  /\ UNCHANGED <<micRef, isCapturing, cams, camRef, camActive, video, notCapture>>
  /\ op' = "micDenied"
  /\ calls' = <<>>
  /\ UNCHANGED <<inbound, block>>
  /\ threw' = TRUE

\* processor.onaudioprocess of call k, while its processor is connected to a
\* running context: the block is converted and handed to onChunk, sendAudio.
\* A float sample of the input buffer: not-a-number, or q / Scale.
Samples ==
  {[nan |-> TRUE, q |-> 0]}
    \cup {[nan |-> FALSE, q |-> q] : q \in -(Scale + 1)..(Scale + 1)}

\* createScriptProcessor(AUDIO_CHUNK_SIZE, 1, 1): every block has that length.
Blocks == [1..AUDIO_CHUNK_SIZE -> Samples]

\* Math.max(-1, Math.min(1, x)); both return NaN for NaN.
ClampNone(x) == x
Clamp(x) ==
  IF x.nan THEN x
  ELSE IF x.q > Scale THEN [x EXCEPT !.q = Scale]
  ELSE IF x.q < -Scale THEN [x EXCEPT !.q = -Scale]
  ELSE x

\* The integer part of s < 0 ? s * 0x8000 : s * 0x7fff (NaN < 0 is false and
\* NaN * 0x7fff is NaN, which an Int16Array stores as 0).
Scaled(s) ==
  IF s.nan THEN 0
  ELSE IF s.q < 0 THEN -(((-s.q) * 32768) \div Scale)
  ELSE (s.q * 32767) \div Scale

\* Storing an integer into an Int16Array keeps it modulo 2^16, signed.
ToInt16(v) == ((v + 32768) % 65536) - 32768

\* The loop of onaudioprocess over the block.
ToPcm(blk) == [i \in 1..Len(blk) |-> ToInt16(Scaled(Clamp(blk[i])))]

\* int16.buffer.byteLength
ByteLength(pcm) == 2 * Len(pcm)

MicBlock(k) ==
  /\ k \in 1..Len(mics)
  /\ MicFeeds(k)
  /\ \E blk \in Blocks : block' = [in |-> blk, out |-> ToPcm(blk)]
  /\ Send([type |-> "audio", data |-> "pcm"])
  /\ UNCHANGED <<sessionVars, captureVars>>
  /\ op' = "onChunk"
  /\ calls' = <<"sendAudio">>
  /\ UNCHANGED inbound

\* handleToggleCamera() of AgentPanel.
HandleToggleCamera ==
  /\ task = 0
  /\ sessionState = "active"
  /\ IF camActive
       THEN /\ cams' = StopCamera(cams, camRef)
            /\ camRef' = 0
            /\ camActive' = FALSE
            /\ video' = NoVideo
       ELSE /\ Len(cams) < MaxStarts
            /\ cams' = Append(cams, "gum")
            /\ UNCHANGED <<camRef, camActive, video>>
  /\ UNCHANGED <<mics, micRef, isCapturing, notCapture>>
  /\ op' = "toggleCamera"
  /\ calls' = IF camActive THEN <<"stopCamera">> ELSE <<"startCamera">>
  /\ UNCHANGED <<inbound, block>>
  /\ threw' = FALSE

\* The rest of start() of useCameraCapture once the video step is over:
\* streamRef, the canvas, the interval and isActive are set.
CamComplete(cs, k) == [cs EXCEPT ![k] = "live"]

\* getUserMedia resolved for call k: with a video element mounted the stream
\* becomes its srcObject and play() is awaited, else start() runs to its end.
CamGranted(k) ==
  /\ task = 0
  /\ k \in 1..Len(cams)
  /\ cams[k] = "gum"
  /\ IF Mounted
       THEN /\ cams' = [cams EXCEPT ![k] = "play"]
            /\ video' = [src |-> k, ready |-> FALSE]
            /\ UNCHANGED <<camRef, camActive>>
       ELSE /\ cams' = CamComplete(cams, k)
            /\ camRef' = k
            /\ camActive' = TRUE
            /\ UNCHANGED video
  /\ UNCHANGED <<mics, micRef, isCapturing, notCapture>>
  /\ op' = "camGranted"
  /\ calls' = <<>>
  /\ UNCHANGED <<inbound, block>>
  /\ threw' = FALSE

CamDenied(k) ==
  /\ task = 0
  /\ k \in 1..Len(cams)
  /\ cams[k] = "gum"
  /\ cams' = [cams EXCEPT ![k] = "denied"]
  /\ UNCHANGED <<camRef, camActive, video, mics, micRef, isCapturing, notCapture>>
  /\ op' = "camDenied"
  /\ calls' = <<>>
  /\ UNCHANGED <<inbound, block>>
  /\ threw' = TRUE

\* play() of call k resolved: the element shows the stream; start() runs to
\* its end. A mounted element resolves only the play() of its own srcObject.
PlayResolved(k) ==
  /\ task = 0
  /\ k \in 1..Len(cams)
  /\ cams[k] = "play"
  /\ Mounted => video.src = k
  /\ cams' = CamComplete(cams, k)
  /\ camRef' = k
  /\ camActive' = TRUE
  /\ video' = IF Mounted THEN [video EXCEPT !.ready = TRUE] ELSE video
  /\ UNCHANGED <<mics, micRef, isCapturing, notCapture>>
  /\ op' = "playResolved"
  /\ calls' = <<>>
  /\ UNCHANGED <<inbound, block>>
  /\ threw' = FALSE

\* play() of call k rejected (not allowed, or interrupted by a change of
\* srcObject): the catch logs and rethrows, after the stream was acquired.
PlayRejected(k) ==
  /\ task = 0
  /\ k \in 1..Len(cams)
  /\ cams[k] = "play"
  /\ cams' = [cams EXCEPT ![k] = "leaked"]
  /\ UNCHANGED <<camRef, camActive, video, mics, micRef, isCapturing, notCapture>>
  /\ op' = "playRejected"
  /\ calls' = <<>>
  /\ UNCHANGED <<inbound, block>>
  /\ threw' = TRUE

\* The tick tests !videoRef.current || !canvasRef.current, then readyState < 2.
TickEmitsUnready == Mounted
TickEmits == Mounted /\ video.ready

\* The setInterval callback armed by call k: one frame is drawn, encoded and
\* handed to onFrame, sendImage, or the tick returns early.
TimerTick(k) ==
  /\ k \in 1..Len(cams)
  /\ CamArmed(k)
  /\ IF TickEmits
       THEN /\ Send([type |-> "image", data |-> "jpeg"])
            /\ op' = "onFrame"
            /\ calls' = <<"sendImage">>
            /\ UNCHANGED <<inbound, block>>
       ELSE /\ task = 0
            /\ UNCHANGED notCapture
            /\ op' = "tickSkipped"
            /\ calls' = <<>>
            /\ UNCHANGED <<inbound, block>>
            /\ threw' = FALSE
  /\ UNCHANGED <<sessionVars, captureVars>>

MicNext ==
  \/ HandleStart("general")
  \/ HandleEndSession
  \/ \E t \in 1..MaxSocks : WsOnOpen(t)
  \/ \E t \in 1..MaxSocks : WsOnClose(t)
  \/ HandleToggleMic
  \/ \E k \in 1..MaxStarts : MicGranted(k)
  \/ \E k \in 1..MaxStarts : MicDenied(k)
  \/ \E k \in 1..MaxStarts : MicBlock(k)

MicSpec == Init /\ [][MicNext]_vars

\* The Capture Pipeline alone, from the toggle to the blocks it converts.
ConvertNext ==
  \/ HandleStart("general")
  \/ \E t \in 1..MaxSocks : WsOnOpen(t)
  \/ HandleToggleMic
  \/ \E k \in 1..MaxStarts : MicGranted(k)
  \/ \E k \in 1..MaxStarts : MicBlock(k)

ConvertSpec == Init /\ [][ConvertNext]_vars

CameraNext ==
  \/ HandleStart("general")
  \/ HandleEndSession
  \/ \E t \in 1..MaxSocks : WsOnOpen(t)
  \/ \E t \in 1..MaxSocks : WsOnClose(t)
  \/ HandleToggleCamera
  \/ \E k \in 1..MaxStarts : CamGranted(k)
  \/ \E k \in 1..MaxStarts : CamDenied(k)
  \/ \E k \in 1..MaxStarts : PlayResolved(k)
  \/ \E k \in 1..MaxStarts : PlayRejected(k)
  \/ \E k \in 1..MaxStarts : TimerTick(k)

CameraSpec == Init /\ [][CameraNext]_vars

\* The controller with the hooks and the two inbound frames that acquire and
\* release the output device: every teardown entry point is exercised, on
\* resources acquired, never acquired and already released. The three
\* devices share no state, so a behaviour acquires one kind of device.
NoMicYet == mics = <<>>
NoCameraYet == cams = <<>>
NoOutputYet == ctxs = <<>>

TeardownNext ==
  \/ HandleStart("general")
  \/ HandleEndSession
  \/ \E t \in 1..MaxSocks : WsOnOpen(t)
  \/ \E t \in 1..MaxSocks : WsOnClose(t)
  \/ NoCameraYet /\ NoOutputYet /\ HandleToggleMic
  \/ \E k \in 1..MaxStarts : MicGranted(k)
  \/ NoMicYet /\ NoOutputYet /\ HandleToggleCamera
  \/ \E k \in 1..MaxStarts : CamGranted(k)
  \/ /\ NoMicYet /\ NoCameraYet
     /\ \E t \in 1..MaxSocks : WsOnMessage(t, Frame("binary", "", <<>>, "", 1))
  \/ \E t \in 1..MaxSocks : WsOnMessage(t, Frame("json", "interrupted", <<>>, "", 0))

TeardownSpec == Init /\ [][TeardownNext]_vars

\* ============================================ claims: Playback Scheduler

\* Two units scheduled on the same context: no flush() ran between them.
SameTimeline(i, j) == units[i].ctx = units[j].ctx

\* The first unit scheduled on its context.
FirstOfTimeline(i) == IF i = 1 THEN TRUE ELSE units[i - 1].ctx # units[i].ctx

\* C1: with no flush in between, every unit starts at max(clockNow at the
\* call, end of the previously scheduled unit), the cursor after a playChunk
\* is that start plus the unit's duration, and so units of one timeline never
\* overlap and start in arrival order.
C1_FifoNoOverlap ==
  /\ \A i \in 2..Len(units) :
       SameTimeline(i - 1, i) =>
         units[i].start = Max(units[i].now, UnitEnd(units[i - 1]))
  /\ (op = "playChunk" /\ ~threw) =>
       nextTime = UnitEnd(units[Len(units)])
  /\ \A i \in 1..Len(units) : \A j \in 1..Len(units) :
       (i < j /\ SameTimeline(i, j)) => UnitEnd(units[i]) <= units[j].start

\* A unit was queued behind its predecessor: it starts later than the clock
\* read at its call.
C1_Witness ==
  \E i \in 2..Len(units) :
    /\ SameTimeline(i - 1, i)
    /\ units[i].start > units[i].now
    /\ units[i - 1].dur = MaxDur

\* C2: the first playChunk after a flush starts its unit exactly at the clock
\* read at that call, whatever the cursor was before the flush.
C2_FreshTimelineAfterFlush ==
  \A i \in 1..Len(units) :
    FirstOfTimeline(i) =>
      /\ units[i].start >= units[i].now
      /\ units[i].start = units[i].now

\* A unit scheduled after a flush although the cursor before the flush lay
\* beyond the clock read at its call.
C2_Witness ==
  \E i \in 2..Len(units) :
    /\ FirstOfTimeline(i)
    /\ ctxs[units[i - 1].ctx].state = "closed"
    /\ UnitEnd(units[i - 1]) > units[i].now

\* C3 as stated: the cursor never decreases, over playChunk and flush alike.
C3_CursorNeverDecreases == [][nextTime' >= nextTime]_vars

\* C3 amended: the cursor never decreases except at flush(), which resets it
\* to zero; every other step, playChunk included, leaves it no smaller.
C3_CursorDecreasesOnlyAtFlush ==
  [][IF op' = "flush" THEN nextTime' = 0 ELSE nextTime' >= nextTime]_vars

\* A playChunk found a cursor beyond the clock and advanced it further.
C3_Witness ==
  /\ op = "playChunk"
  /\ ~threw
  /\ Len(units) >= 2
  /\ SameTimeline(Len(units) - 1, Len(units))
  /\ units[Len(units)].start > units[Len(units)].now

\* A unit that flush() discarded: scheduled on a context the scheduler no
\* longer holds, and not started.
Discarded(i) == units[i].ctx # ctxRef /\ units[i].st = "scheduled"

\* C4: when flush() returns the context is released (no context is left
\* rendering) and the cursor is zero, and a unit that was scheduled and not
\* yet started at a flush never starts afterwards, also once a later
\* playChunk has re-acquired the device.
C4_FlushDiscardsPending ==
  /\ [](op = "flush" =>
          /\ ctxRef = 0
          /\ nextTime = 0
          /\ \A c \in 1..Len(ctxs) : ctxs[c].state = "closed")
  /\ [][\A i \in 1..Len(units) :
          Discarded(i) => units'[i].st = "scheduled"]_vars

\* A discarded unit is still pending although the re-acquired device's clock
\* has passed the unit's start time.
C4_Witness ==
  \E i \in 1..Len(units) :
    /\ Discarded(i)
    /\ ctxRef # 0
    /\ ctxs[ctxRef].state = "running"
    /\ ctxs[ctxRef].time >= units[i].start
    /\ units[i].start > 0

\* ============================================ claims: Connection Manager

Live(t) == socks[t].rs \in {"CONNECTING", "OPEN"}

\* The status changes section 4.5 of the specification allows.
AllowedStatusChange(from, to, by) ==
  \/ from = "disconnected" /\ to = "connecting" /\ by = "start"
  \/ from = "connecting" /\ to = "connected"
  \/ from = "connected" /\ to = "disconnected"
  \/ from \in {"connecting", "connected"} /\ to = "error"
  \/ from = "error" /\ to = "disconnected"
  \/ by = "end" /\ to = "disconnected"

\* C5: every change of the connection status is an allowed transition:
\* disconnected to connecting on start, connecting to connected, connected to
\* disconnected, connecting or connected to error, error to disconnected, and
\* anything to disconnected on end(); so connected is entered only from
\* connecting and nothing but a start leaves disconnected.
C5_AllowedTransitions ==
  [][status' # status => AllowedStatusChange(status, status', op')]_vars

\* C6: no status value is notified twice in a row: the latest setStatus call
\* never repeats the value it replaced, so a disconnect() followed by the
\* transport's close callback reports disconnected once.
C6_NoDuplicateNotification == prevStatus # status

\* C7: at most one transport is open or connecting, and a transport the
\* manager no longer references has delivered its last callback.
C7_SingleTransport ==
  /\ Cardinality({t \in 1..Len(socks) : Live(t)}) <= 1
  /\ \A t \in 1..Len(socks) : t # wsRef => socks[t].closed

\* C8: a transport that has opened has sent exactly one config message, as its
\* first outbound message and carrying the preset connect() was given; a
\* transport that has not opened has sent nothing.
C8_ConfigFirstAndOnce ==
  \A t \in 1..Len(socks) :
    LET sent == socks[t].sent IN
    /\ socks[t].wasOpen =>
         /\ Len(sent) >= 1
         /\ sent[1] = [type |-> "config", data |-> socks[t].preset]
    /\ ~socks[t].wasOpen => sent = <<>>
    /\ \A k \in 2..Len(sent) : sent[k].type # "config"

\* A transport connected for preset tutor has sent its config and then a media
\* or text message.
C8_Witness ==
  \E t \in 1..Len(socks) :
    /\ socks[t].preset = "tutor"
    /\ Len(socks[t].sent) >= 2
    /\ socks[t].sent[2].type \in {"audio", "image", "text"}

\* C9: a transport error sets status error, and status error is always
\* followed by status disconnected: it does not stay in error.
C9_ErrorLeadsToDisconnected ==
  /\ [](op = "onerror" => status = "error")
  /\ (status = "error") ~> (status = "disconnected")

\* The close callback has replaced status error by disconnected.
C9_Witness ==
  /\ op = "onclose"
  /\ prevStatus = "error"
  /\ status = "disconnected"

SendOps == {"sendAudio", "sendImage", "sendText"}

\* C10: sendAudio, sendImage and sendText called while the referenced
\* transport is not open (none, connecting, closing or closed) transmit
\* nothing, raise nothing and leave the status, the transport reference and
\* every transport as they were.
C10_SendNoOpWhenNotOpen ==
  [][(op' \in SendOps /\ ~WsIsOpen) =>
       /\ UNCHANGED <<wsRef, status, socks, task, prevStatus, sessionState>>
       /\ ~threw']_vars

\* A send was attempted while the referenced transport was still connecting.
C10_Witness ==
  /\ op \in SendOps
  /\ wsRef # 0
  /\ socks[wsRef].rs = "CONNECTING"
  /\ socks[wsRef].sent = <<>>

\* ============================================ claims: Session Controller

\* C11: a text frame that cannot be parsed as a JSON object is dropped: the
\* handler raises nothing, and the connection, the status, the session state,
\* the transcript, the agent name, the accumulator and the playback state are
\* what they were; the transport it came on is still open, so later frames
\* are still dispatched.
C11_MalformedDropped ==
  /\ [](op = "msg.malformed" => \E t \in 1..Len(socks) : socks[t].rs = "OPEN")
  /\ [][op' = "msg.malformed" =>
          /\ UNCHANGED <<connVars, playbackVars>>
          /\ UNCHANGED <<transcript, agentName, assistantBuf>>
          /\ ~threw']_vars

\* A malformed frame arrived in the middle of a turn, on the connected
\* transport, with a transcript piece already accumulated.
C11_Witness ==
  /\ op = "msg.malformed"
  /\ WsIsOpen
  /\ status = "connected"
  /\ assistantBuf # <<>>

\* C12: end() makes its hook calls in the order camera stop, microphone stop,
\* disconnect, and is idle when it returns.
C12_TeardownOrder ==
  op = "end" => /\ calls = <<"stopCamera", "stopMic", "disconnect">>
                /\ sessionState = "idle"

\* The "Session ended." entries of the transcript.
EndedEntries == {i \in DOMAIN transcript : transcript[i].text = SessionEnded}

\* C13: a session's transcript holds at most one "Session ended."
\* notification, however end() and the close callbacks interleave.
C13_OneEndedNotification == Cardinality(EndedEntries) <= 1

\* A handler of transport t ran in this step.
EventOf(t) ==
  /\ op' \in {"onopen", "onerror", "onclose"}
  /\ socks'[t] # socks[t]

\* C14: an event of a transport that the controller has replaced changes
\* neither the session state, nor the status, nor the transcript of the
\* session that was started after it.
C14_NoLateEvent ==
  [][\A t \in 1..Len(socks) :
       (t < wsRef /\ sessionState = "active" /\ EventOf(t))
         => UNCHANGED <<sessionState, status, transcript>>]_vars

\* ================================== claims: Capture Pipeline, Frame Pacer

\* C15: while the session is idle no microphone stream and no camera stream
\* is live, no camera interval is armed, and no transport is open or
\* connecting.
C15_IdleHoldsNothing ==
  sessionState = "idle" =>
    /\ \A k \in DOMAIN mics : ~MicLive(k)
    /\ \A k \in DOMAIN cams : ~CamLive(k) /\ ~CamArmed(k)
    /\ \A t \in 1..Len(socks) : ~Live(t)

\* C16: at most one microphone stream is live, at most one camera stream is
\* live and at most one camera interval is armed, also when a start() is
\* called before an earlier one has completed.
C16_OneHandleEach ==
  /\ Cardinality({k \in DOMAIN mics : MicLive(k)}) <= 1
  /\ Cardinality({k \in DOMAIN cams : CamLive(k)}) <= 1
  /\ Cardinality({k \in DOMAIN cams : CamArmed(k)}) <= 1

\* C17: a start() that failed has raised its error and has left nothing it
\* acquired live: no call is in the state of having failed with its stream
\* still live.
C17_FailedStartLeavesNothing ==
  /\ op \in {"micDenied", "camDenied", "playRejected"} => threw
  /\ \A k \in DOMAIN mics : mics[k] # "leaked"
  /\ \A k \in DOMAIN cams : cams[k] # "leaked"

\* C18: no audio block reaches the sink once stop() of the Capture Pipeline
\* has returned, and no frame once stop() of the Frame Pacer has returned:
\* a block or frame is delivered only while the hook is active.
C18_NoDeliveryAfterStop ==
  [][/\ op' = "onChunk" => isCapturing
     /\ op' = "onFrame" => camActive]_vars

\* disconnect() applied once and applied twice to the present state.
Once == Disconnect(wsRef, socks)
Twice == Disconnect(Once.wsRef, Once.socks)

\* A teardown entry point ran in this step: end(), stopMic() or stopCamera()
\* from a toggle, or flush() from an interrupted message.
TornDown ==
  \/ op' \in {"end", "interrupted"}
  \/ calls' \in {<<"stopMic">>, <<"stopCamera">>}

\* C19: no teardown entry point raises; end() leaves a microphone and a
\* camera that hold nothing as they are, flush() leaves a released output
\* device as it is; and a second disconnect() leaves the transport
\* reference, the status and the transports exactly as the first left them,
\* with no callback of the controller called.
C19_TeardownNeverFails ==
  /\ [](Twice = Once /\ ~Twice.threw)
  /\ [][TornDown => ~threw']_vars
  /\ [][op' = "end" =>
          /\ wsRef' = Once.wsRef /\ socks' = Once.socks /\ status' = Once.status
          /\ UNCHANGED transcript
          /\ micRef = 0 => UNCHANGED <<mics, micRef, isCapturing>>
          /\ camRef = 0 => UNCHANGED <<cams, camRef, camActive, video>>]_vars
  /\ [][(op' = "interrupted" /\ ctxRef = 0) => UNCHANGED playbackVars]_vars

\* end() ran on a session whose microphone and camera were never switched on,
\* after an interrupted message had flushed an output device that was never
\* acquired.
C19_Witness ==
  /\ op = "end"
  /\ ~threw
  /\ mics = <<>> /\ cams = <<>>
  /\ ctxs = <<>> /\ delivered = 1

\* Messages transmitted so far, over all transports.
AllSent == UserSent(Len(socks))

C27_ConversionExact ==
  op = "onChunk" =>
    /\ Len(block.out) = Len(block.in)
    /\ ByteLength(block.out) = 2 * Len(block.in)
    /\ \A i \in 1..Len(block.in) :
         LET x == block.in[i]
             y == block.out[i]
         IN /\ y \in -32768..32767
            /\ (~x.nan /\ x.q >= Scale) => y = 32767
            /\ (~x.nan /\ x.q <= -Scale) => y = -32768
            /\ (~x.nan /\ x.q = 0) => y = 0

\* A block was converted that holds a sample above 1.0 and a sample below
\* -1.0.
C27_Witness ==
  /\ op = "onChunk"
  /\ \E i, j \in 1..Len(block.in) :
       /\ ~block.in[i].nan /\ block.in[i].q > Scale
       /\ ~block.in[j].nan /\ block.in[j].q < -Scale

\* ===================================== claims: inbound control dispatch

\* A session_ready message has been received since the session was started.
SessionReady ==
  \E i \in DOMAIN transcript :
    transcript[i].role = "system" /\ transcript[i].text[1] = "Connected to "

\* C21: a microphone block or a camera frame is transmitted only when the
\* status is connected and session_ready has been received for the session.
C21_NoMediaBeforeReady ==
  [][(op' \in {"onChunk", "onFrame"} /\ socks' # socks)
       => (status = "connected" /\ SessionReady)]_vars

LastEntry == transcript[Len(transcript)]

Flushed ==
  /\ ctxRef' = 0
  /\ nextTime' = 0
  /\ ~isPlaying'
  /\ ctxRef # 0 => ctxs'[ctxRef].state = "closed"

\* C24: interrupted runs flush(), emits the accumulated text X as exactly one
\* assistant entry "X [interrupted]" when X is not empty, and empties the
\* accumulator, so a turn_complete that follows emits nothing.
C24_InterruptedFlushes ==
  [][/\ op' = "interrupted" =>
          /\ Flushed
          /\ assistantBuf' = <<>>
          /\ assistantBuf # <<>> =>
               transcript' = Append(transcript,
                 Entry("assistant", assistantBuf \o <<" [interrupted]">>))
     /\ (op = "interrupted" /\ op' = "turn_complete") =>
          transcript' = transcript]_vars

\* interrupted arrived while "Hel" was accumulated and a chunk was scheduled.
C24_Witness ==
  /\ op = "interrupted"
  /\ transcript = <<Entry("assistant", <<"Hel", " [interrupted]">>)>>
  /\ assistantBuf = <<>>
  /\ ctxs # <<>>
  /\ ctxRef = 0

\* C25: a transcript or input_transcript message emits no entry when it
\* arrives, and an input_transcript leaves the assistant accumulator alone.
C25_AccumulateOnly ==
  [][op' \in {"transcript", "input_transcript"} =>
       /\ transcript' = transcript
       /\ op' = "input_transcript" => assistantBuf' = assistantBuf]_vars

\* C26: a message with an unrecognised tag changes nothing: not the session
\* state, the agent name, the accumulator, the transcript, the playback
\* state or the connection, and nothing is raised.
C26_UnknownTagIgnored ==
  [][op' = "other" =>
       /\ UNCHANGED <<connVars, playbackVars, captureVars>>
       /\ UNCHANGED <<transcript, agentName, assistantBuf>>
       /\ ~threw']_vars

\* An unrecognised message arrived in the middle of a turn.
C26_Witness ==
  /\ op = "other"
  /\ status = "connected"
  /\ assistantBuf # <<>>

\* C28: the accumulator is empty when a session starts.
C28_AccumulatorEmptyAtStart == [][op' = "start" => assistantBuf' = <<>>]_vars

\* The assistant entries of the transcript.
AssistantEntries == {i \in DOMAIN transcript : transcript[i].role = "assistant"}

\* C29: with an empty accumulator turn_complete and interrupted emit
\* nothing, and interrupted still runs flush(); an assistant entry is added
\* only by one of the two arriving with a non-empty accumulator, one at a
\* time.
C29_NothingFromEmpty ==
  [][/\ (op' \in {"turn_complete", "interrupted"} /\ assistantBuf = <<>>)
          => transcript' = transcript
     /\ op' = "interrupted" => Flushed
     /\ (op' # "start" /\ Cardinality(AssistantEntries') > Cardinality(AssistantEntries))
          => /\ op' \in {"turn_complete", "interrupted"}
             /\ assistantBuf # <<>>
             /\ Cardinality(AssistantEntries') = Cardinality(AssistantEntries) + 1]_vars

\* interrupted arrived with an empty accumulator after a chunk was scheduled:
\* the output device was released and no entry was added.
C29_Witness ==
  /\ op = "interrupted"
  /\ transcript = <<>>
  /\ ctxs # <<>>
  /\ ctxRef = 0

\* C30: sendText while the transport is not open adds no user entry.
C30_UserEntryOnlyIfSent ==
  [][(op' = "sendText" /\ ~WsIsOpen) => transcript' = transcript]_vars

\* ================================ claims: ending and the Playback Scheduler

\* Scheduled audio is discarded: a context is closed, the context reference
\* is dropped, or the cursor goes back.
AudioDiscarded ==
  \/ \E c \in 1..Len(ctxs) : ctxs[c].state # "closed" /\ ctxs'[c].state = "closed"
  \/ ctxRef # 0 /\ ctxRef' = 0
  \/ nextTime' < nextTime

\* C31: handleEndSession() and the close of the transport leave the output
\* context, the cursor and every scheduled unit as they were; scheduled audio
\* is discarded only when an interrupted message arrives.
C31_EndLeavesPlayback ==
  [][/\ op' \in {"end", "onclose"} => UNCHANGED playbackVars
     /\ AudioDiscarded => op' = "interrupted"]_vars

\* The session was ended while a unit was scheduled: the context is still
\* referenced and open, the cursor still stands after the unit.
C31_Witness ==
  /\ op = "end"
  /\ units # <<>>
  /\ ctxRef # 0
  /\ ctxs[ctxRef].state # "closed"
  /\ nextTime > 0
  /\ isPlaying

====
